---------------------------- MODULE Spec2Model ----------------------------
(***************************************************************************)
(* eltakoMS: the read loop of main() in eltakoMS.c.  One loop iteration    *)
(* reads one datagram from the serial line into buf, validates it into the *)
(* bit mask err, and, when err = 0, decodes it, folds it into the running  *)
(* window, rewrites the snapshot file and possibly closes the window.      *)
(* Bytes are integers 0..255; buf is the 150-byte array of main().         *)
(***************************************************************************)
EXTENDS Integers, Sequences, FiniteSets

(* ------------------------------------------------------------------------ *)
(* Program constants                                                         *)
(* ------------------------------------------------------------------------ *)
LINELEN == 150

ETX == 3

FRAMELEN == 40

MININTERVAL == 10

(* ASCII codes of the characters the code compares against. *)
ch == [W |-> 87, X |-> 88, plus |-> 43, minus |-> 45, dot |-> 46,
       zero |-> 48, seven |-> 55, nine |-> 57, J |-> 74, N |-> 78, quest |-> 63,
       one |-> 49, five |-> 53, space |-> 32, tab |-> 9, cr |-> 13,
       R |-> 82, r |-> 114, O |-> 79, o |-> 111, nul |-> 0,
       t |-> 116, s |-> 115, w |-> 119, e |-> 101, d |-> 100, v |-> 118]

(* ------------------------------------------------------------------------ *)
(* Bounds of the model                                                       *)
(* ------------------------------------------------------------------------ *)
MaxTime == 21

MaxCount == 3

Byte == 0..255

BufIdx == 0..(LINELEN - 1)

(* ------------------------------------------------------------------------ *)
(* C arithmetic                                                              *)
(* ------------------------------------------------------------------------ *)
Abs(x) == IF x < 0 THEN -x ELSE x

(* integer division of C: the quotient is truncated toward zero *)
CDiv(a, b) == IF (a >= 0) = (b > 0) THEN Abs(a) \div Abs(b) ELSE -(Abs(a) \div Abs(b))

(* value of a plain char on the target (x86 Linux: char is signed) *)
SChar(b) == IF b >= 128 THEN b - 256 ELSE b

IsDigit(b) == b >= ch.zero /\ b <= ch.nine

IsSpace(b) == b = ch.space \/ (b >= ch.tab /\ b <= ch.cr)

(* the bytes of memory m from index i on; a read past the array sees the   *)
(* NUL the read loop stores at buf+LINELEN for an unterminated frame        *)
At(m, i) == IF i \in DOMAIN m THEN m[i] ELSE ch.nul

(* The value of a run of decimal digits, kept as the low 32 bits in two    *)
(* 16-bit halves <<hi, lo>>, which is what the conversion of strtol's long *)
(* to atoi's int keeps.                                                     *)
RECURSIVE DigitRun(_, _, _)
DigitRun(m, i, acc) ==
  IF IsDigit(At(m, i))
  THEN LET lo == acc[2] * 10 + (m[i] - ch.zero)
           hi == acc[1] * 10 + (lo \div 65536)
       IN DigitRun(m, i + 1, << hi % 65536, lo % 65536 >>)
  ELSE acc

(* the int a pair of halves stands for, two's complement *)
ToInt(h) == IF h[1] < 32768 THEN h[1] * 65536 + h[2] ELSE (h[1] - 65536) * 65536 + h[2]

(* the halves of -x *)
Negate(h) ==
  IF h[2] = 0 THEN << (65536 - h[1]) % 65536, 0 >> ELSE << 65535 - h[1], 65536 - h[2] >>

RECURSIVE SkipSpace(_, _)
SkipSpace(m, i) == IF IsSpace(At(m, i)) THEN SkipSpace(m, i + 1) ELSE i

(* atoi(m+i): white space, an optional sign, then decimal digits up to the *)
(* first byte that is no digit                                              *)
Atoi(m, i) ==
  LET j == SkipSpace(m, i)
      neg == At(m, j) = ch.minus
      k == IF At(m, j) = ch.minus \/ At(m, j) = ch.plus THEN j + 1 ELSE j
      v == DigitRun(m, k, <<0, 0>>)
  IN ToInt(IF neg THEN Negate(v) ELSE v)

RECURSIVE FirstNonDigit(_, _)
FirstNonDigit(m, i) == IF IsDigit(At(m, i)) THEN FirstNonDigit(m, i + 1) ELSE i

(* (int)(atof(m+i)*10) for the texts the decoder hands it, [+-]DD.D and     *)
(* DD.D cut by a NUL: the integer part times ten plus the first fraction    *)
(* digit, the sign applied, truncated toward zero.  (For every such text    *)
(* the IEEE double product is the exact integer, so the truncation loses    *)
(* nothing.)                                                                *)
AtofTimes10(m, i) ==
  LET j == SkipSpace(m, i)
      neg == At(m, j) = ch.minus
      k == IF At(m, j) = ch.minus \/ At(m, j) = ch.plus THEN j + 1 ELSE j
      ip == ToInt(DigitRun(m, k, <<0, 0>>))
      d == FirstNonDigit(m, k)
      fr == IF At(m, d) = ch.dot /\ IsDigit(At(m, d + 1)) THEN m[d + 1] - ch.zero ELSE 0
      v == ip * 10 + fr
  IN IF neg THEN -v ELSE v


(* ------------------------------------------------------------------------ *)
(* The sensor's datagram (file header comment): 39 characters and ETX       *)
(*   W+07.6016300N99901.2N?151515151515?1889                                *)
(* ------------------------------------------------------------------------ *)
Dig(n, k) == ch.zero + ((n \div k) % 10)

Flag(b) == IF b THEN ch.J ELSE ch.N

Separator == <<ch.quest, ch.one, ch.five, ch.one, ch.five, ch.one, ch.five,
               ch.one, ch.five, ch.one, ch.five, ch.one, ch.five, ch.quest>>

(* the 35 characters before the checksum, for the reading v:               *)
(* v.neg sign, v.temp and v.wind magnitudes in tenths, v.sunS/W/E 0..99,   *)
(* v.dawn 0..999, v.obsc and v.rain booleans                                *)
Payload(v) ==
  << ch.W, (IF v.neg THEN ch.minus ELSE ch.plus),
     Dig(v.temp, 100), Dig(v.temp, 10), ch.dot, Dig(v.temp, 1),
     Dig(v.sunS, 10), Dig(v.sunS, 1), Dig(v.sunW, 10), Dig(v.sunW, 1),
     Dig(v.sunE, 10), Dig(v.sunE, 1), Flag(v.obsc),
     Dig(v.dawn, 100), Dig(v.dawn, 10), Dig(v.dawn, 1),
     Dig(v.wind, 100), Dig(v.wind, 10), ch.dot, Dig(v.wind, 1), Flag(v.rain) >>
  \o Separator

RECURSIVE SumSeq(_)
SumSeq(q) == IF q = <<>> THEN 0 ELSE q[1] + SumSeq(Tail(q))

FourDigits(n) == << Dig(n, 1000), Dig(n, 100), Dig(n, 10), Dig(n, 1) >>

(* the datagram the sensor sends for the reading v *)
Datagram(v) == Payload(v) \o FourDigits(SumSeq(Payload(v))) \o <<ETX>>

(* q with the byte at offset i (from 0) replaced by b *)
Poke(q, i, b) == [k \in DOMAIN q |-> IF k = i + 1 THEN b ELSE q[k]]

(* ------------------------------------------------------------------------ *)
(* The read loop: bytes are stored from buf on until ETX has been stored or *)
(* LINELEN bytes have been; then a NUL is stored at s.                      *)
(* ------------------------------------------------------------------------ *)
(* what one pass of the do-while can receive: ETX ends it, LINELEN ends it *)
IsReadable(raw) ==
  /\ Len(raw) >= 1 /\ Len(raw) <= LINELEN
  /\ \A k \in 1..(Len(raw) - 1) : raw[k] # ETX
  /\ (raw[Len(raw)] = ETX \/ Len(raw) = LINELEN)

(* buf after the loop and the store of the NUL at s = buf + Len(raw); the  *)
(* store at buf+LINELEN falls outside the array and leaves buf as it is    *)
ReadInto(b, raw) ==
  [i \in BufIdx |-> IF i < Len(raw) THEN raw[i + 1]
                    ELSE IF i = Len(raw) THEN ch.nul ELSE b[i]]

(* the byte after the array, at buf+LINELEN, which belongs to whatever the  *)
(* compiler placed there: *(s) = 0 overwrites it when LINELEN bytes were    *)
(* read, s being buf+LINELEN then; x is the byte found there before         *)
PastAfter(x, raw) == IF Len(raw) = LINELEN THEN ch.nul ELSE x

(* ------------------------------------------------------------------------ *)
(* Sanity checks: one operator per bit of err                               *)
(* ------------------------------------------------------------------------ *)
NotDigit(b, i) == b[i] < ch.zero \/ b[i] > ch.nine

ErrLengthAlt(n) == IF n # FRAMELEN + 1 THEN 1 ELSE 0

ErrLength(n) == IF n # FRAMELEN THEN 1 ELSE 0

ErrMarker(b) == IF b[0] # ch.W THEN 2 ELSE 0

ErrSign(b) == IF b[1] # ch.plus /\ b[1] # ch.minus THEN 4 ELSE 0

ErrTemp(b) ==
  IF NotDigit(b, 2) \/ NotDigit(b, 3) \/ b[4] # ch.dot \/ NotDigit(b, 5) THEN 8 ELSE 0

ErrSunS(b) == IF NotDigit(b, 6) \/ NotDigit(b, 7) THEN 16 ELSE 0

ErrSunW(b) == IF NotDigit(b, 8) \/ NotDigit(b, 9) THEN 32 ELSE 0

ErrSunE(b) == IF NotDigit(b, 10) \/ NotDigit(b, 11) THEN 64 ELSE 0

ErrObsc(b) == IF b[12] # ch.J /\ b[12] # ch.N THEN 128 ELSE 0

ErrDawn(b) == IF NotDigit(b, 13) \/ NotDigit(b, 14) \/ NotDigit(b, 15) THEN 256 ELSE 0

ErrWind(b) ==
  IF NotDigit(b, 16) \/ NotDigit(b, 17) \/ b[18] # ch.dot \/ NotDigit(b, 19)
  THEN 512 ELSE 0

ErrRain(b) == IF b[20] # ch.J /\ b[20] # ch.N THEN 1024 ELSE 0

ErrSeparator(b) == IF \E k \in 1..14 : b[20 + k] # Separator[k] THEN 2048 ELSE 0

ErrDigits(b) ==
  IF NotDigit(b, 35) \/ NotDigit(b, 36) \/ NotDigit(b, 37) \/ NotDigit(b, 38)
  THEN 4096 ELSE 0

RECURSIVE SumBuf(_, _, _)
SumBuf(b, i, hi) == IF i >= hi THEN 0 ELSE SChar(b[i]) + SumBuf(b, i + 1, hi)

(* for (i=0, sum=0; i<35; i++) sum += *(buf+i); *)
ByteSumAlt(b) == SumBuf(b, 1, 35)

ByteSum(b) == SumBuf(b, 0, 35)

ErrChecksumAlt(b) == IF ErrDigits(b) # 0 THEN 8192 ELSE 0

(* if ((err & 0x1000) || sum != atoi(buf+35)) err |= 0x2000; *)
ErrChecksum(b) == IF ErrDigits(b) # 0 \/ ByteSum(b) # Atoi(b, 35) THEN 8192 ELSE 0

(* err after the sanity checks, for buf = b and s - buf = n; the bits are   *)
(* distinct, so their sum is their bitwise or                               *)
Validate(b, n) ==
  ErrLength(n) + ErrMarker(b) + ErrSign(b) + ErrTemp(b) + ErrSunS(b) + ErrSunW(b)
  + ErrSunE(b) + ErrObsc(b) + ErrDawn(b) + ErrWind(b) + ErrRain(b)
  + ErrSeparator(b) + ErrDigits(b) + ErrChecksum(b)

(* the byte found in bufcpy[LINELEN-1], which nothing ever writes *)
Unwritten == {0, 255}

(* strncpy(bufcpy, buf, LINELEN-1) printed with %s: the bytes of buf before *)
(* its first NUL.  When none of the LINELEN-1 bytes copied is NUL, bufcpy   *)
(* holds no terminator of its own and the text runs on into bufcpy[149],    *)
(* which is never written: the text then depends on the byte found there.                       *)
(* the number of bytes before the first NUL among the first lim bytes *)
StrNLen(b, lim) ==
  IF \E i \in 0..(lim - 1) : b[i] = ch.nul
  THEN CHOOSE i \in 0..(lim - 1) : b[i] = ch.nul /\ \A j \in 0..(i - 1) : b[j] # ch.nul
  ELSE lim

CStr(b, lim) == [k \in 1..StrNLen(b, lim) |-> b[k - 1]]

BufCpyTexts(b) ==
  LET t == CStr(b, LINELEN - 1)
  IN IF Len(t) = LINELEN - 1
     THEN {IF u = ch.nul THEN t ELSE t \o <<u>> : u \in Unwritten}
     ELSE {t}

(* ------------------------------------------------------------------------ *)
(* Decoding of an accepted frame, right to left, each field cut off by a    *)
(* NUL stored over the first byte of the field after it                     *)
(* ------------------------------------------------------------------------ *)
Cut(b, i) == [b EXCEPT ![i] = ch.nul]

Decode(b) ==
  LET b20 == Cut(b, 20)
      b16 == Cut(b20, 16)
      b12 == Cut(b16, 12)
      b10 == Cut(b12, 10)
      b8 == Cut(b10, 8)
      b6 == Cut(b8, 6)
  IN [ rain |-> IF b[20] = ch.J THEN ch.R ELSE ch.r,
       wind |-> AtofTimes10(b20, 16),
       dawn |-> Atoi(b16, 13),
       obsc |-> IF b16[12] = ch.J THEN ch.O ELSE ch.o,
       sunE |-> Atoi(b12, 10),
       sunW |-> Atoi(b10, 8),
       sunS |-> Atoi(b8, 6),
       temp |-> AtofTimes10(b6, 1),
       buf |-> b6 ]

(* ------------------------------------------------------------------------ *)
(* The window: count, the running sums and the running maxima               *)
(* ------------------------------------------------------------------------ *)
OldEpochInit == -1

ZeroAccAlt == [count |-> 0, maxRain |-> 0, maxWind |-> 1, accDawn |-> 0, maxObsc |-> 0,
               accSunE |-> 0, accSunW |-> 0, accSunS |-> 0, accTemp |-> 0]

(* count = maxRain = maxWind = accDawn = maxObsc = accSunE = ... = 0; *)
ZeroAcc == [count |-> 0, maxRain |-> 0, maxWind |-> 0, accDawn |-> 0, maxObsc |-> 0,
            accSunE |-> 0, accSunW |-> 0, accSunS |-> 0, accTemp |-> 0]

MaxAlt(a, b) == a

(* (x > max) ? x : max *)
Max(a, b) == IF a > b THEN a ELSE b

NextCountAlt(c) == c

NextCount(c) == c + 1

(* the accumulation with the first sample of a window counted but its *)
(* values left out                                                    *)
AccumulateAlt(a, m) ==
  IF a.count = 0
  THEN [ZeroAcc EXCEPT !.count = 1, !.maxRain = m.rain, !.maxObsc = m.obsc]
  ELSE [ count |-> NextCount(a.count),
         maxRain |-> Max(m.rain, a.maxRain),
         maxWind |-> Max(m.wind, a.maxWind),
         accDawn |-> a.accDawn + m.dawn,
         maxObsc |-> Max(m.obsc, a.maxObsc),
         accSunE |-> a.accSunE + m.sunE,
         accSunW |-> a.accSunW + m.sunW,
         accSunS |-> a.accSunS + m.sunS,
         accTemp |-> a.accTemp + m.temp ]

(* lines 355-377: the maxima, the sums and count++ *)
Accumulate(a, m) ==
  [ count |-> NextCount(a.count),
    maxRain |-> Max(m.rain, a.maxRain),
    maxWind |-> Max(m.wind, a.maxWind),
    accDawn |-> a.accDawn + m.dawn,
    maxObsc |-> Max(m.obsc, a.maxObsc),
    accSunE |-> a.accSunE + m.sunE,
    accSunW |-> a.accSunW + m.sunW,
    accSunS |-> a.accSunS + m.sunS,
    accTemp |-> a.accTemp + m.temp ]

(* the record written to the snapshot file: the values of this frame *)
SnapshotAlt(a, m) ==
  [temp |-> a.accTemp, sunS |-> a.accSunS, sunW |-> a.accSunW, sunE |-> a.accSunE,
   obsc |-> a.maxObsc, dawn |-> a.accDawn, wind |-> a.maxWind, rain |-> a.maxRain]

Snapshot(a, m) ==
  [temp |-> m.temp, sunS |-> m.sunS, sunW |-> m.sunW, sunE |-> m.sunE,
   obsc |-> m.obsc, dawn |-> m.dawn, wind |-> m.wind, rain |-> m.rain]

(* if (ltime % interval < oldEpoch) *)
CloseDueAlt(t, iv, old) == t % iv <= old

CloseDue(t, iv, old) == t % iv < old

(* oldEpoch = ltime % interval; *)
NextOldEpochAlt(t, iv) == t

NextOldEpoch(t, iv) == t % iv

(* epoch: the interval boundary when the phase is within 5% of the interval. *)
(* ltime % interval <= interval * .05 compares in double: .05 is the double  *)
(* just above 1/20 and the product is rounded to nearest, so it is never     *)
(* below interval/20 and never reaches the next twentieth; for the integer   *)
(* phase the test is 20 * phase <= interval.  (long)(ltime/interval) *       *)
(* interval is ltime less the phase, ltime being non-negative.               *)
EpochAlt(t, iv) == IF 20 * (t % iv) < iv THEN (t \div iv) * iv ELSE t

Epoch(t, iv) == IF 20 * (t % iv) <= iv THEN (t \div iv) * iv ELSE t

(* (int)(q + .5) for an integer q: the double q + .5 truncated toward zero *)
PlusHalfToInt(q) == IF q >= 0 THEN q ELSE q + 1

(* (int)(acc / count + .5): acc / count is the integer division of a long   *)
(* by an int                                                                *)
Average(sum, n) == PlusHalfToInt(CDiv(sum, n))

AveragedRecord(a, t, iv) ==
  [ epoch |-> Epoch(t, iv),
    temp |-> Average(a.accTemp, a.count),
    sunS |-> Average(a.accSunS, a.count),
    sunW |-> Average(a.accSunW, a.count),
    sunE |-> Average(a.accSunE, a.count),
    obsc |-> a.maxObsc,
    dawn |-> Average(a.accDawn, a.count),
    wind |-> a.maxWind,
    rain |-> a.maxRain ]

(* ------------------------------------------------------------------------ *)
(* Signals (lines 272-275) and closefiles()                                  *)
(* ------------------------------------------------------------------------ *)
Signals == {"SIGTERM", "SIGHUP", "SIGINT", "SIGQUIT"}

(* the process when it enters the loop: the four signals are caught by      *)
(* closefiles, the serial device is open, the lock file is written, and     *)
(* with -s the connection to syslog is open                                 *)
Started(useSyslog) ==
  [ pc |-> "loop",                            (* loop, a line of closefiles, exited, hung *)
    disp |-> [g \in Signals |-> "closefiles"], (* closefiles or SIG_IGN *)
    blocked |-> {},                           (* signals whose handler is running *)
    entries |-> 0,                            (* how often closefiles was entered *)
    inLibrary |-> "none",    (* the library call the signal interrupted *)
    use_syslog |-> useSyslog,
    fd |-> TRUE,                              (* the serial device is open *)
    log |-> useSyslog,                        (* the syslog connection is open *)
    lock |-> TRUE,                            (* the lock file exists *)
    status |-> -1 ]                           (* the exit status, -1 while running *)

(* ------------------------------------------------------------------------ *)
(* The UUCP lock file (lines 202-230)                                        *)
(* ------------------------------------------------------------------------ *)
NProcs == 2

(* the processes started on one device; process p has the pid p *)
Procs == 1..NProcs

(* the pid of a process that no longer exists *)
DeadPid == 0

(* the files the lock path can name: the one a process p creates, p, and    *)
(* the one left behind by an earlier process                                *)
StaleInode == NProcs + 1

Inodes == 1..StaleInode

(* the lock path names no file; a file holds no byte yet *)
NoFile == 0

Empty == -1

(* the processes and the lock path: path is the file the path names, data   *)
(* the pid each file holds, pc the line each process is at, fh the file its *)
(* lockfile handle is open on, pid its variable pid                         *)
LockState(path, stalePid, first) ==
  [ path |-> path,
    data |-> [i \in Inodes |-> IF i = StaleInode THEN stalePid
                               ELSE IF i = path THEN i ELSE Empty],
    pc |-> [p \in Procs |-> IF p = first THEN "loop" ELSE "idle"],
    fh |-> [p \in Procs |-> NoFile],
    pid |-> [p \in Procs |-> DeadPid] ]

(* no process is starting: process 1 runs the loop and holds the lock it wrote *)
LockAlone == LockState(1, Empty, 1)

(* ------------------------------------------------------------------------ *)
(* State                                                                     *)
(* ------------------------------------------------------------------------ *)
VARIABLES
  clock,     (* the wall clock, what time(NULL) returns *)
  buf,       (* char buf[LINELEN] *)
  slen,      (* s - buf after the read loop *)
  err,       (* the mask of the sanity checks of this iteration *)
  interval,  (* -i <interval>, at least MININTERVAL *)
  acc,       (* count, accTemp, accDawn, accSunS/W/E, maxWind, maxRain, maxObsc *)
  oldEpoch,  (* ltime % interval of the last accepted frame, -1 at start *)
  shm,       (* the snapshot file: <<>> before the first write, else <<record>> *)
  logged,    (* the line appended to the log in this iteration, <<>> if none *)
  diag,      (* the syslog error line of this iteration, <<>> if none *)
  events,    (* the outputs of this iteration, in the order they are made *)
  raw,       (* history: the bytes received in this iteration *)
  window,    (* history: the readings accepted since the last close *)
  closed,    (* history: the readings of the window closed in this iteration *)
  divisor,   (* history: count at the divisions of this iteration, -1 if none *)
  lastT,     (* history: ltime of the last accepted frame, -1 if none *)
  latest,    (* history: <<the reading of the last accepted frame>>, <<>> if none *)
  crossed,   (* history: interval boundaries between the last two accepted frames *)
  exPos,     (* history: how far the accepted phases follow ExPhases, -1 if not *)
  exCloses,  (* history: the positions of ExPhases at which a window closed *)
  past,      (* the byte of the stack frame right after buf, at buf+LINELEN *)
  sig,       (* the process and its signals: where it is, dispositions, files *)
  lk         (* the lock file of the device and the processes starting on it *)

vars == << clock, buf, slen, err, interval, acc, oldEpoch, shm, logged, diag, events,
           raw, window, closed, divisor, lastT, latest, crossed, exPos, exCloses,
           past, sig, lk >>

(* what the read loop and the window read and write *)
loopVars == << clock, buf, slen, err, interval, acc, oldEpoch, shm, logged, diag,
               events, raw, window, closed, divisor, lastT, latest, crossed, exPos,
               exCloses, past >>

(* the reading a datagram carries, taken byte by byte from the wire format *)
Val(q, i) == q[i + 1] - ch.zero

Reading(q) ==
  [ temp |-> (IF q[2] = ch.minus THEN -1 ELSE 1)
               * (100 * Val(q, 2) + 10 * Val(q, 3) + Val(q, 5)),
    sunS |-> 10 * Val(q, 6) + Val(q, 7),
    sunW |-> 10 * Val(q, 8) + Val(q, 9),
    sunE |-> 10 * Val(q, 10) + Val(q, 11),
    obsc |-> q[13] = ch.J,
    dawn |-> 100 * Val(q, 13) + 10 * Val(q, 14) + Val(q, 15),
    wind |-> 100 * Val(q, 16) + 10 * Val(q, 17) + Val(q, 19),
    rain |-> q[21] = ch.J ]

(* the multiples of iv in (t0, t1], for t0 the time of an earlier frame *)
Crossed(t0, t1, iv) == IF t0 = -1 THEN 0 ELSE (t1 \div iv) - (t0 \div iv)

(* the phases of the example: interval 10, samples at phases 5, 8, 2, 9, 1 *)
ExPhases == <<5, 8, 2, 9, 1>>

ExStep(pos, p) ==
  IF pos >= 0 /\ pos < Len(ExPhases) /\ interval = MININTERVAL /\ p = ExPhases[pos + 1]
  THEN pos + 1 ELSE -1

(* the stack array before the first read: whatever the stack held *)
StackFill == {0, 255}

(* the averaging interval of the command line: the smallest one the program
   accepts and its double *)
Intervals == {MININTERVAL, 2 * MININTERVAL}

(* the state in which main enters while (1) *)
LoopInit(fills, ivs) ==
  /\ \E f \in fills : buf = [i \in BufIdx |-> f] /\ past = f
  /\ interval \in ivs
  /\ clock = 0 /\ slen = 0 /\ err = 0
  /\ acc = ZeroAcc
  /\ oldEpoch = OldEpochInit
  /\ shm = <<>> /\ logged = <<>> /\ diag = <<>> /\ events = <<>>
  /\ raw = <<>> /\ window = <<>> /\ closed = <<>> /\ divisor = -1
  /\ lastT = -1 /\ latest = <<>> /\ crossed = 0 /\ exPos = 0 /\ exCloses = {}

(* the loop of one process, started without -s on a device no other process *)
(* is starting on                                                           *)
InitWith(fills, ivs) ==
  /\ LoopInit(fills, ivs)
  /\ sig = Started(FALSE)
  /\ lk = LockAlone

Init == InitWith(StackFill, Intervals)

Alive == IF events = <<>> THEN TRUE ELSE events[Len(events)] # "SIGFPE"

(* ------------------------------------------------------------------------ *)
(* The wall clock advances while the process waits in select() and read()   *)
(* ------------------------------------------------------------------------ *)
Tick(step, maxT) ==
  /\ clock + step <= maxT
  /\ clock' = clock + step
  /\ UNCHANGED << buf, slen, err, interval, acc, oldEpoch, shm, logged, diag, events,
                  raw, window, closed, divisor, lastT, latest, crossed, exPos,
                  exCloses, past, sig, lk >>

(* ------------------------------------------------------------------------ *)
(* One iteration of while (1), for the bytes q received; ltime = clock.     *)
(* The sanity checks and strncpy see buf as the read loop left it, b, and   *)
(* leave the mask e in err.                                                 *)
(* ------------------------------------------------------------------------ *)
(* err # 0: the else branch, the syslog line and nothing more *)
Reject(q, b, e) ==
  /\ e # 0
  /\ buf' = b /\ slen' = Len(q) /\ err' = e
  /\ \E txt \in BufCpyTexts(b) : diag' = << [mask |-> e, text |-> txt] >>
  /\ logged' = <<>> /\ events' = <<"diagnostic">>
  /\ raw' = q /\ closed' = <<>> /\ divisor' = -1
  /\ past' = PastAfter(past, q)
  /\ UNCHANGED << clock, interval, acc, oldEpoch, shm, window, lastT, latest, crossed,
                  exPos, exCloses, sig, lk >>

(* err = 0 and the phase has not wrapped: decode, accumulate, snapshot *)
Accept(q, b, e, cap) ==
  /\ e = 0 /\ acc.count < cap
  /\ ~CloseDue(clock, interval, oldEpoch)
  /\ \E m \in {Decode(b)} : \E a \in {Accumulate(acc, m)} :
       /\ buf' = m.buf /\ acc' = a /\ shm' = << Snapshot(a, m) >>
  /\ slen' = Len(q) /\ err' = e
  /\ oldEpoch' = NextOldEpoch(clock, interval)
  /\ logged' = <<>> /\ diag' = <<>> /\ events' = <<"snapshot">>
  /\ raw' = q /\ window' = Append(window, Reading(q))
  /\ closed' = <<>> /\ divisor' = -1 /\ lastT' = clock
  /\ latest' = << Reading(q) >> /\ crossed' = Crossed(lastT, clock, interval)
  /\ exPos' = ExStep(exPos, clock % interval)
  /\ exCloses' = IF exPos' = -1 THEN {} ELSE exCloses
  /\ past' = PastAfter(past, q)
  /\ UNCHANGED << clock, interval, sig, lk >>

(* err = 0 and the phase has wrapped: as Accept, then the averaged record   *)
(* and the reset; a division by a zero count ends the process (SIGFPE)      *)
AcceptClose(q, b, e, cap) ==
  /\ e = 0 /\ acc.count < cap
  /\ CloseDue(clock, interval, oldEpoch)
  /\ \E m \in {Decode(b)} : \E a \in {Accumulate(acc, m)} :
       /\ buf' = m.buf /\ shm' = << Snapshot(a, m) >>
       /\ divisor' = a.count
       /\ IF a.count = 0
          THEN /\ logged' = <<>> /\ events' = <<"snapshot", "SIGFPE">>
               /\ acc' = a /\ UNCHANGED oldEpoch
          ELSE /\ logged' = << AveragedRecord(a, clock, interval) >>
               /\ events' = <<"snapshot", "record">>
               /\ acc' = ZeroAcc
               /\ oldEpoch' = NextOldEpoch(clock, interval)
  /\ slen' = Len(q) /\ err' = e
  /\ diag' = <<>>
  /\ raw' = q /\ closed' = Append(window, Reading(q)) /\ window' = <<>>
  /\ lastT' = clock
  /\ latest' = << Reading(q) >> /\ crossed' = Crossed(lastT, clock, interval)
  /\ exPos' = ExStep(exPos, clock % interval)
  /\ exCloses' = IF exPos' = -1 THEN {} ELSE exCloses \cup {exPos'}
  /\ past' = PastAfter(past, q)
  /\ UNCHANGED << clock, interval, sig, lk >>

(* cap bounds the samples of a window *)
Loop(q, cap) ==
  /\ Alive /\ IsReadable(q)
  /\ \E b \in {ReadInto(buf, q)} : \E e \in {Validate(b, Len(q))} :
       \/ Reject(q, b, e)
       \/ Accept(q, b, e, cap)
       \/ AcceptClose(q, b, e, cap)

(* ------------------------------------------------------------------------ *)
(* What the serial line delivers                                             *)
(* ------------------------------------------------------------------------ *)
(* the reading of the file header comment: W+07.6016300N99901.2N?...?1889 *)
Mild == [neg |-> FALSE, temp |-> 76, sunS |-> 1, sunW |-> 63, sunE |-> 0,
         obsc |-> FALSE, dawn |-> 999, wind |-> 12, rain |-> FALSE]

Frost == [neg |-> TRUE, temp |-> 15, sunS |-> 0, sunW |-> 0, sunE |-> 2,
          obsc |-> TRUE, dawn |-> 0, wind |-> 107, rain |-> TRUE]

(* the example datagram with its marker overwritten *)
BadMarker == Poke(Datagram(Mild), 0, ch.X)

(* line noise: a NUL among the bytes, and a stray ETX after a few of them *)
Noise == << ch.W, ch.plus, ch.nul, ch.seven, ch.dot, ETX >>

Frames == {Datagram(Mild), Datagram(Frost), BadMarker, Noise}

Next ==
  \/ Tick(1, MaxTime)
  \/ \E q \in Frames : Loop(q, MaxCount)

Spec == Init /\ [][Next]_vars

(* ------------------------------------------------------------------------ *)
(* The sanity checks under a wider choice of frames                          *)
(* ------------------------------------------------------------------------ *)
WireTime == 14

WireStep == 7

WireCount == 2

Readings == {Mild, Frost}

(* a payload followed by the four digits of n and ETX *)
Signed(p, n) == p \o FourDigits(n) \o <<ETX>>

(* what a checksum field can hold against the payload p *)
Checksums(p) == {SumSeq(p), SumSeq(p) + 1, SumSeq(p) - 1, SumSeq(p) + 1000, 0, 9999}

Fill(n, b) == [k \in 1..n |-> b]

WireFrames ==
  UNION {{Signed(Payload(v), n) : n \in Checksums(Payload(v))} : v \in Readings}
  \cup {Poke(Datagram(v), 0, ch.X) : v \in Readings}
  \cup { Payload(Mild) \o FourDigits(SumSeq(Payload(Mild))) \o <<ch.space, ETX>>,
         Payload(Mild) \o FourDigits(SumSeq(Payload(Mild))) \o <<ch.zero, ETX>>,
         SubSeq(Datagram(Mild), 1, 38) \o <<ETX>>,
         <<ETX>>,
         SubSeq(Datagram(Frost), 1, 39) \o Fill(LINELEN - 39, ch.quest),
         SubSeq(Datagram(Frost), 1, 39) \o Fill(LINELEN - 40, ch.quest) \o <<ETX>> }

WireNext ==
  \/ Tick(WireStep, WireTime)
  \/ \E q \in WireFrames : Loop(q, WireCount)

WireSpec == InitWith(StackFill, {MININTERVAL}) /\ [][WireNext]_vars

(* ------------------------------------------------------------------------ *)
(* Termination signals.  signal() installs closefiles with the semantics of  *)
(* glibc: the handler stays installed and the signal being handled is        *)
(* blocked while its handler runs; the other three are not.                  *)
(* ------------------------------------------------------------------------ *)
HandlerLines == {"L96", "L97", "L98", "L99", "L100", "L106", "L107"}

(* a signal that is neither ignored nor blocked reaches a running process *)
Deliverable(g) ==
  /\ sig.pc \in HandlerLines \cup {"loop"}
  /\ sig.disp[g] = "closefiles"
  /\ g \notin sig.blocked

(* closefiles is called for the signal g; lib tells the library call of the *)
(* loop it interrupts: "none", "stdio" or "syslog"                          *)
Enter(g, lib) ==
  [sig EXCEPT !.pc = "L96", !.blocked = @ \cup {g}, !.entries = @ + 1,
              !.inLibrary = lib]

(* the signal arrives while the process waits in select() *)
DeliverInSelect(g) ==
  /\ sig.pc = "loop" /\ Deliverable(g)
  /\ sig' = Enter(g, "none")
  /\ UNCHANGED << loopVars, lk >>

(* the signal arrives in the middle of an iteration, inside the first call  *)
(* into the library after the sanity checks: syslog() of the diagnostic for *)
(* a rejected frame (nothing is written yet), fopen(shmf, "w") for an       *)
(* accepted one (decoded and accumulated, the snapshot file truncated)      *)
DeliverInIteration(q, g, cap) ==
  /\ sig.pc = "loop" /\ Deliverable(g)
  /\ Alive /\ IsReadable(q)
  /\ \E b \in {ReadInto(buf, q)} : \E e \in {Validate(b, Len(q))} :
       /\ err' = e
       /\ IF e # 0
          THEN /\ buf' = b /\ sig' = Enter(g, "syslog")
               /\ UNCHANGED << acc, shm, window, latest >>
          ELSE /\ acc.count < cap
               /\ \E m \in {Decode(b)} :
                    /\ buf' = m.buf /\ acc' = Accumulate(acc, m)
               /\ shm' = <<>> /\ sig' = Enter(g, "stdio")
               /\ window' = Append(window, Reading(q))
               /\ latest' = << Reading(q) >>
  /\ slen' = Len(q) /\ past' = PastAfter(past, q) /\ raw' = q
  /\ logged' = <<>> /\ diag' = <<>> /\ events' = <<>>
  /\ closed' = <<>> /\ divisor' = -1
  /\ UNCHANGED << clock, interval, oldEpoch, lastT, crossed, exPos, exCloses, lk >>

(* another of the four signals arrives while closefiles runs *)
DeliverInHandler(g) ==
  /\ sig.pc \in HandlerLines /\ Deliverable(g)
  /\ sig' = Enter(g, sig.inLibrary)
  /\ UNCHANGED << loopVars, lk >>

(* a call that is not async-signal-safe, made by the handler while the loop *)
(* is interrupted inside the library lib: undefined; it returns or it never *)
(* does (syslog() waits for the lock the interrupted syslog() holds)        *)
UnsafeCall(lib, done) == IF lib = "none" THEN {done} ELSE {done, "hung"}

(* one line of closefiles() *)
HandlerStep ==
  /\ sig.pc \in HandlerLines
  /\ \/ /\ sig.pc = "L96"
        /\ sig' = [sig EXCEPT !.disp["SIGTERM"] = "SIG_IGN", !.pc = "L97"]
     \/ /\ sig.pc = "L97"
        /\ sig' = [sig EXCEPT !.disp["SIGHUP"] = "SIG_IGN", !.pc = "L98"]
     \/ /\ sig.pc = "L98"
        /\ sig' = [sig EXCEPT !.disp["SIGINT"] = "SIG_IGN", !.pc = "L99"]
     \/ /\ sig.pc = "L99"
        /\ sig' = [sig EXCEPT !.disp["SIGQUIT"] = "SIG_IGN", !.pc = "L100"]
     \/ /\ sig.pc = "L100" /\ sig.use_syslog
        /\ \E to \in UnsafeCall(IF sig.inLibrary = "syslog" THEN "syslog" ELSE "none",
                                 "L106") :
             sig' = [sig EXCEPT !.pc = to, !.log = IF to = "hung" THEN @ ELSE FALSE]
     \/ /\ sig.pc = "L100" /\ ~sig.use_syslog
        /\ sig' = [sig EXCEPT !.fd = FALSE, !.pc = "L106"]
     \/ /\ sig.pc = "L106"
        /\ sig' = [sig EXCEPT !.lock = FALSE, !.pc = "L107"]
     \/ /\ sig.pc = "L107"
        /\ \E to \in UnsafeCall(sig.inLibrary, "exited") :
             sig' = IF to = "hung" THEN [sig EXCEPT !.pc = "hung"]
                    ELSE [sig EXCEPT !.pc = "exited", !.status = 0, !.fd = FALSE,
                                     !.log = FALSE]
  /\ UNCHANGED << loopVars, lk >>

SigFrames == {Datagram(Mild), Noise}

SigNext ==
  \/ Tick(WireStep, WireTime)
  \/ \E q \in SigFrames : sig.pc = "loop" /\ Loop(q, WireCount)
  \/ \E g \in Signals : DeliverInSelect(g)
  \/ \E g \in Signals : \E q \in SigFrames : DeliverInIteration(q, g, WireCount)
  \/ \E g \in Signals : DeliverInHandler(g)
  \/ HandlerStep

(* with and without -s; closefiles, once called, keeps running *)
SigInit ==
  /\ LoopInit({ch.nul}, {MININTERVAL})
  /\ sig \in {Started(u) : u \in BOOLEAN}
  /\ lk = LockAlone

SigSpec == SigInit /\ [][SigNext]_vars /\ WF_vars(HandlerStep)

(* ------------------------------------------------------------------------ *)
(* Start-up of several processes on one device: the lock file check          *)
(* ------------------------------------------------------------------------ *)
(* /proc/<pid>/cmdline can be opened: a process with that pid exists *)
Live(n) == \E p \in Procs : p = n /\ lk.pc[p] \notin {"idle", "exit2", "gone"}

(* what fscanf ("%11d", &pid) leaves in pid: the number in the file, or,    *)
(* the file being empty, the uninitialised pid, which can hold any number   *)
Scanned(content) == IF content = Empty THEN Procs \cup {DeadPid} ELSE {content}

(* the next line of the start-up of process p *)
LockStep(p) ==
  /\ \/ /\ lk.pc[p] = "idle"
        /\ lk' = [lk EXCEPT !.pc[p] = "L207"]
     \/ /\ lk.pc[p] = "L207" /\ lk.path = NoFile
        /\ lk' = [lk EXCEPT !.pc[p] = "L228"]
     \/ /\ lk.pc[p] = "L207" /\ lk.path # NoFile
        /\ lk' = [lk EXCEPT !.pc[p] = "L208", !.fh[p] = lk.path]
     \/ /\ lk.pc[p] = "L208"
        /\ \E n \in Scanned(lk.data[lk.fh[p]]) :
             lk' = [lk EXCEPT !.pc[p] = "L210", !.pid[p] = n]
     \/ /\ lk.pc[p] = "L210" /\ Live(lk.pid[p])
        /\ lk' = [lk EXCEPT !.pc[p] = "exit2", !.fh[p] = NoFile]
     \/ /\ lk.pc[p] = "L210" /\ ~Live(lk.pid[p])
        /\ lk' = [lk EXCEPT !.pc[p] = "L216"]
     \/ /\ lk.pc[p] = "L216"
        /\ lk' = [lk EXCEPT !.pc[p] = "L228", !.fh[p] = NoFile, !.path = NoFile]
     \/ /\ lk.pc[p] = "L228" /\ lk.path = NoFile
        /\ lk' = [lk EXCEPT !.pc[p] = "L229", !.fh[p] = p, !.path = p,
                            !.data[p] = Empty]
     \/ /\ lk.pc[p] = "L228" /\ lk.path # NoFile
        /\ lk' = [lk EXCEPT !.pc[p] = "L229", !.fh[p] = lk.path,
                            !.data[lk.path] = Empty]
     \/ /\ lk.pc[p] = "L229"
        /\ lk' = [lk EXCEPT !.pc[p] = "loop", !.data[lk.fh[p]] = p, !.fh[p] = NoFile]
  /\ UNCHANGED << loopVars, sig >>

(* a process in the loop is killed: its lock file stays behind *)
Killed(p) ==
  /\ lk.pc[p] = "loop"
  /\ lk' = [lk EXCEPT !.pc[p] = "gone"]
  /\ UNCHANGED << loopVars, sig >>

(* a process in the loop gets a termination signal: closefiles unlinks the  *)
(* lock path                                                                *)
Terminated(p) ==
  /\ lk.pc[p] = "loop"
  /\ lk' = [lk EXCEPT !.pc[p] = "gone", !.path = NoFile]
  /\ UNCHANGED << loopVars, sig >>

LockNext == \E p \in Procs : LockStep(p) \/ Killed(p) \/ Terminated(p)

(* no lock file, or the lock file of a process that is gone *)
LockInit ==
  /\ LoopInit({ch.nul}, {MININTERVAL})
  /\ sig = Started(FALSE)
  /\ lk \in {LockState(NoFile, Empty, 0), LockState(StaleInode, DeadPid, 0)}

LockSpec == LockInit /\ [][LockNext]_vars

(* ------------------------------------------------------------------------ *)
(* The compact line of the snapshot file and of the log:                     *)
(*   "t%+05.1fs%2.2dw%2.2de%2.2d%cd%3.3dv%04.1f%c"                           *)
(* ------------------------------------------------------------------------ *)
RECURSIVE Digits(_)
Digits(n) == IF n < 10 THEN <<ch.zero + n>> ELSE Digits(n \div 10) \o <<ch.zero + (n % 10)>>

(* %N.Nd: at least prec digits, a minus sign before them for a negative int *)
Decimal(n, prec) ==
  LET dg == Digits(Abs(n))
      padded == IF Len(dg) >= prec THEN dg ELSE Fill(prec - Len(dg), ch.zero) \o dg
  IN IF n < 0 THEN <<ch.minus>> \o padded ELSE padded

(* %+05.1f and %04.1f of (float)x/10: the float quotient printed with one   *)
(* decimal is the exact tenth (the float error is far below .05), the sign  *)
(* comes first and zeros fill up to the width                               *)
Tenths(x, plus, width) ==
  LET sign == IF x < 0 THEN <<ch.minus>> ELSE IF plus THEN <<ch.plus>> ELSE <<>>
      body == Digits(Abs(x) \div 10) \o <<ch.dot, ch.zero + (Abs(x) % 10)>>
      gap == width - Len(sign) - Len(body)
  IN sign \o (IF gap > 0 THEN Fill(gap, ch.zero) ELSE <<>>) \o body

(* the line with two of its fields exchanged *)
CompactLineAlt(r) ==
  <<ch.t>> \o Tenths(r.temp, TRUE, 5) \o <<ch.s>> \o Decimal(r.sunS, 2)
  \o <<ch.w>> \o Decimal(r.sunE, 2) \o <<ch.e>> \o Decimal(r.sunW, 2)
  \o <<r.obsc, ch.d>> \o Decimal(r.dawn, 3)
  \o <<ch.v>> \o Tenths(r.wind, FALSE, 4) \o <<r.rain>>

(* the line for the values r: temp, sunS, sunW, sunE, obsc, dawn, wind, rain *)
CompactLine(r) ==
  <<ch.t>> \o Tenths(r.temp, TRUE, 5) \o <<ch.s>> \o Decimal(r.sunS, 2)
  \o <<ch.w>> \o Decimal(r.sunW, 2) \o <<ch.e>> \o Decimal(r.sunE, 2)
  \o <<r.obsc, ch.d>> \o Decimal(r.dawn, 3)
  \o <<ch.v>> \o Tenths(r.wind, FALSE, 4) \o <<r.rain>>

(* ------------------------------------------------------------------------ *)
(* The decoder under a wider choice of readings                              *)
(* ------------------------------------------------------------------------ *)
DecodeReadings ==
  { [neg |-> n, temp |-> t, sunS |-> a, sunW |-> 99 - a, sunE |-> 9, obsc |-> o,
     dawn |-> (IF o THEN 7 ELSE 990), wind |-> 999 - t, rain |-> (a = 0)] :
      n \in BOOLEAN, t \in {0, 5, 999}, a \in {0, 9, 99}, o \in BOOLEAN }

DecodeFrames == {Datagram(v) : v \in DecodeReadings \cup {Mild}} \cup {Noise}

(* the samples of a window: the decoder is looked at one frame at a time *)
DecodeCount == 1

DecodeNext ==
  \/ Tick(WireStep, WireTime)
  \/ \E q \in DecodeFrames : Loop(q, DecodeCount)

DecodeSpec == InitWith(StackFill, {MININTERVAL}) /\ [][DecodeNext]_vars

(* ------------------------------------------------------------------------ *)
(* Properties of the processing loop                                         *)
(* ------------------------------------------------------------------------ *)
(* a step that is a loop iteration which accepted its frame *)
AcceptStep == clock' = clock /\ err' = 0

(* a step that is a loop iteration which rejected its frame *)
RejectStep == clock' = clock /\ err' # 0

(* the phase of the previous accepted frame, or the sentinel *)
PrevPhase == IF lastT = -1 THEN -1 ELSE lastT % interval

(* C1: an accepted frame processed at time now emits a periodic record in   *)
(* that iteration iff now mod interval < prevPhase, prevPhase being the     *)
(* phase of the previous accepted frame or -1 when there is none; accepted  *)
(* samples at phases 5, 8, 2, 9, 1 (interval 10) close only at 8->2, 9->1.  *)
C1_CloseIffPhaseWraps ==
  [][ /\ AcceptStep => ((logged' # <<>>) <=> (clock % interval < PrevPhase))
      /\ AcceptStep /\ lastT = -1 => logged' = <<>>
      /\ exPos' = Len(ExPhases) => exCloses' = {3, 5} ]_vars

C1_Witness == exPos = Len(ExPhases) /\ exCloses = {3, 5} /\ logged # <<>>

(* the flag characters of a window: uppercase iff some sample had the flag *)
AnyRain(w) == \E i \in 1..Len(w) : w[i].rain

AnyObsc(w) == \E i \in 1..Len(w) : w[i].obsc

(* C2: in every emitted record the rain flag is 'R' iff at least one sample *)
(* of the window had rain active, and the obscurity flag is 'O' iff at      *)
(* least one sample of the window had obscurity active.                     *)
C2_FlagsAreAnyOf ==
  logged # <<>> =>
    /\ (logged[1].rain = ch.R) <=> AnyRain(closed)
    /\ (logged[1].obsc = ch.O) <=> AnyObsc(closed)

Total(w, name) ==
  IF w = <<>> THEN 0
  ELSE LET F[i \in 0..Len(w)] ==
             IF i = 0 THEN 0
             ELSE F[i - 1] + (CASE name = "temp" -> w[i].temp
                                [] name = "dawn" -> w[i].dawn
                                [] name = "sunS" -> w[i].sunS
                                [] name = "sunW" -> w[i].sunW
                                [] OTHER -> w[i].sunE)
       IN F[Len(w)]

(* the mean sum/n rounded to the nearest integer, ties upward *)
RoundHalfUp(sum, n) == (2 * sum + n) \div (2 * n)

(* C3: in every emitted record each averaged field equals the exact mean of *)
(* that field over the samples of the window, rounded to the nearest        *)
(* integer with ties rounded up.                                            *)
C3_AveragesAreRounded ==
  logged # <<>> =>
    /\ logged[1].temp = RoundHalfUp(Total(closed, "temp"), Len(closed))
    /\ logged[1].dawn = RoundHalfUp(Total(closed, "dawn"), Len(closed))
    /\ logged[1].sunS = RoundHalfUp(Total(closed, "sunS"), Len(closed))
    /\ logged[1].sunW = RoundHalfUp(Total(closed, "sunW"), Len(closed))
    /\ logged[1].sunE = RoundHalfUp(Total(closed, "sunE"), Len(closed))

(* C4: whenever the window-close branch computes the averages the sample    *)
(* count is at least 1 and is the number of samples of the window, the      *)
(* process never divides by zero, and no record is emitted for a window     *)
(* with no accepted sample.                                                 *)
C4_NoEmptyWindow ==
  /\ Alive
  /\ divisor # -1 => divisor >= 1 /\ divisor = Len(closed)
  /\ logged # <<>> => divisor >= 1 /\ Len(closed) >= 1

(* two closes in a row: the second window holds the closing sample alone   *)
C4_Witness == logged # <<>> /\ divisor = 1 /\ crossed >= 1

(* C5, as stated: when one or more interval boundaries lie between two      *)
(* consecutive accepted samples, exactly one close fires, on the later one. *)
C5_Original ==
  [][ AcceptStep /\ Crossed(lastT, clock, interval) >= 1 => logged' # <<>> ]_vars

(* C5, amended: a close fires on the later of two consecutive accepted      *)
(* samples only if a boundary lies between them, and at most once; with a   *)
(* boundary between them it fires iff the later phase is below the earlier  *)
(* one, which always holds when they are less than one interval apart.      *)
C5_CloseOnlyOnLowerPhase ==
  [][ AcceptStep /\ lastT # -1 =>
        /\ Len(logged') <= 1
        /\ logged' # <<>> => Crossed(lastT, clock, interval) >= 1
        /\ Crossed(lastT, clock, interval) >= 1 =>
             ((logged' # <<>>) <=> (clock % interval < lastT % interval))
        /\ Crossed(lastT, clock, interval) >= 1 /\ clock - lastT < interval
             => logged' # <<>> ]_vars

(* one close for a gap of two boundaries *)
C5_Witness == logged # <<>> /\ crossed = 2

(* C6: a frame with a non-zero mask leaves count, the sums, the maxima and  *)
(* prevPhase unchanged, does not rewrite the snapshot, emits no record, and *)
(* reports exactly one diagnostic with the full mask and the raw bytes.     *)
C6_RejectedFrameIsDropped ==
  [][ RejectStep =>
        /\ acc' = acc /\ oldEpoch' = oldEpoch /\ shm' = shm
        /\ logged' = <<>>
        /\ diag' = << [mask |-> err', text |-> raw'] >> ]_vars

(* the snapshot record a reading is written as *)
SnapshotOfReading(r) ==
  [temp |-> r.temp, sunS |-> r.sunS, sunW |-> r.sunW, sunE |-> r.sunE,
   obsc |-> IF r.obsc THEN ch.O ELSE ch.o, dawn |-> r.dawn, wind |-> r.wind,
   rain |-> IF r.rain THEN ch.R ELSE ch.r]

(* C7: once a frame has been accepted the snapshot holds the instantaneous  *)
(* values of the most recently accepted frame; every accepted frame         *)
(* rewrites it, closing or not, before the averaged record is written.      *)
C7_SnapshotIsLatest ==
  /\ latest # <<>> => shm = << SnapshotOfReading(latest[1]) >>
  /\ latest = <<>> => shm = <<>>
  /\ err = 0 /\ events # <<>> =>
       /\ events[1] = "snapshot"
       /\ logged # <<>> => events = <<"snapshot", "record">>
  /\ err # 0 => events = <<"diagnostic">>

(* a closing frame whose own values differ from the averages it closes *)
C7_Witness ==
  /\ logged # <<>> /\ Len(closed) >= 2
  /\ shm[1].temp # logged[1].temp /\ shm[1].dawn # logged[1].dawn

(* ------------------------------------------------------------------------ *)
(* Properties of the sanity checks                                           *)
(* ------------------------------------------------------------------------ *)
HasBit(m, bit) == (m \div bit) % 2 = 1

Numeral(c) == c >= ch.zero /\ c <= ch.nine

(* rules 2-10 of the wire format, on the 35 bytes p of a payload *)
WellFormedPayload(p) ==
  /\ Len(p) = 35
  /\ p[1] = ch.W
  /\ p[2] \in {ch.plus, ch.minus}
  /\ Numeral(p[3]) /\ Numeral(p[4]) /\ p[5] = ch.dot /\ Numeral(p[6])
  /\ \A k \in 7..12 : Numeral(p[k])
  /\ p[13] \in {ch.J, ch.N}
  /\ \A k \in 14..16 : Numeral(p[k])
  /\ Numeral(p[17]) /\ Numeral(p[18]) /\ p[19] = ch.dot /\ Numeral(p[20])
  /\ p[21] \in {ch.J, ch.N}
  /\ SubSeq(p, 22, 35) = Separator

(* a well-formed payload, four decimal digits and the terminator *)
PayloadAndDigits(q) ==
  /\ Len(q) = 40 /\ q[40] = ETX
  /\ WellFormedPayload(SubSeq(q, 1, 35))
  /\ \A k \in 36..39 : Numeral(q[k])

DecimalValue(q) ==
  1000 * (q[36] - ch.zero) + 100 * (q[37] - ch.zero) + 10 * (q[38] - ch.zero)
  + (q[39] - ch.zero)

(* a frame the sensor sends: its checksum digits are the sum of its payload *)
IsValidWire(q) == PayloadAndDigits(q) /\ DecimalValue(q) = SumSeq(SubSeq(q, 1, 35))

(* a Valid frame whose byte 0 alone was changed to X *)
MarkerSwapped(q) == q # <<>> /\ q[1] = ch.X /\ IsValidWire(Poke(q, 0, ch.W))

(* C8, as stated: a Valid frame with only byte 0 changed from W to X yields *)
(* a mask with exactly the marker bit 0x0002 set; the frame is dropped.     *)
C8_Original == MarkerSwapped(raw) => err = 2

(* C8, amended: such a frame yields exactly the marker bit 0x0002 and the   *)
(* checksum bit 0x2000 (byte 0 is part of the byte sum, which no longer     *)
(* matches the unchanged digits); it is dropped with one diagnostic and no  *)
(* snapshot or record.                                                      *)
C8_MarkerAndChecksumBits ==
  MarkerSwapped(raw) =>
    /\ err = 2 + 8192
    /\ events = <<"diagnostic">> /\ logged = <<>>
    /\ diag # <<>> /\ diag[1].mask = err

C8_Witness == MarkerSwapped(raw) /\ err = 8194 /\ events = <<"diagnostic">>

(* the bytes of a frame before its terminator *)
BytesBeforeETX(q) == IF q[Len(q)] = ETX THEN Len(q) - 1 ELSE Len(q)

(* C9, as stated: the length bit 0x0001 is set iff the number of bytes of   *)
(* the frame excluding the terminator differs from 40.                      *)
C9_Original == raw # <<>> => (HasBit(err, 1) <=> BytesBeforeETX(raw) # 40)

(* C9, amended: the length bit is set iff the number of bytes read into the *)
(* buffer, the terminator included, differs from 40: a terminated frame     *)
(* escapes it iff it has exactly 39 bytes before the terminator, and an     *)
(* unterminated run of LINELEN bytes always gets it.                        *)
C9_LengthCountsTerminator ==
  raw # <<>> =>
    /\ HasBit(err, 1) <=> Len(raw) # 40
    /\ HasBit(err, 1) <=> ~(raw[Len(raw)] = ETX /\ BytesBeforeETX(raw) = 39)

(* 40 bytes before the terminator, nothing else wrong: the length bit alone *)
C9_Witness == raw # <<>> /\ raw[Len(raw)] = ETX /\ BytesBeforeETX(raw) = 40 /\ err = 1

(* C10: for a well-formed 35-byte payload P followed by four decimal digits *)
(* D and the terminator, the checksum bit 0x2000 is set iff the decimal     *)
(* value of D differs from the sum of the bytes of P.                       *)
C10_ChecksumBit ==
  PayloadAndDigits(raw) =>
    (HasBit(err, 8192) <=> DecimalValue(raw) # SumSeq(SubSeq(raw, 1, 35)))

C10_Witness ==
  /\ PayloadAndDigits(raw)
  /\ DecimalValue(raw) = SumSeq(SubSeq(raw, 1, 35)) + 1
  /\ err = 8192

(* ------------------------------------------------------------------------ *)
(* The sanity checks and the bytes left in buf by earlier iterations         *)
(* ------------------------------------------------------------------------ *)
(* buf of a process that has read nothing yet, on a stack of zero bytes *)
FreshBuf == [i \in BufIdx |-> ch.nul]

(* the mask of the frame q when it is the first frame of such a process *)
MaskOf(q) == Validate(ReadInto(FreshBuf, q), Len(q))

(* C11: the validation mask of a frame is a function of the frame's own     *)
(* bytes only: whatever frames were processed before it, valid or invalid,  *)
(* the same raw frame yields the same mask, also when it is shorter than 40 *)
(* bytes.  One history is the empty one on a zeroed stack, so the mask of   *)
(* every iteration has to be the mask the frame gets there.                 *)
C11_MaskOfFrameOnly == raw # <<>> => err = MaskOf(raw)

(* ------------------------------------------------------------------------ *)
(* Properties of the window close                                            *)
(* ------------------------------------------------------------------------ *)
(* C12: at every window close at time now with phase p = now mod interval   *)
(* the timestamp of the record is now - p if 20 * p <= interval and is now  *)
(* otherwise; it never lies after now and never more than 5% of the         *)
(* interval before it.  (lastT is now of the iteration that wrote logged.)  *)
C12_EpochSnapsWithinFivePercent ==
  logged # <<>> =>
    /\ 20 * (lastT % interval) <= interval
         => logged[1].epoch = lastT - (lastT % interval)
    /\ 20 * (lastT % interval) > interval => logged[1].epoch = lastT
    /\ logged[1].epoch <= lastT
    /\ 20 * (lastT - logged[1].epoch) <= interval

(* a close at a phase of exactly 5% of the interval: snapped *)
C12_Witness ==
  /\ logged # <<>> /\ lastT % interval > 0
  /\ 20 * (lastT % interval) = interval
  /\ logged[1].epoch = lastT - (lastT % interval)

(* C13: the accumulator is reset exactly at window close: right after an    *)
(* iteration that emits a record the count, the five sums and the three     *)
(* maxima are zero; an iteration that emits none resets none of them: an    *)
(* accepted frame raises count by exactly 1 and adds its own values to the  *)
(* sums (the maxima do not fall), a rejected frame leaves all of them.      *)
C13_ResetExactlyAtClose ==
  [][ /\ AcceptStep /\ logged' # <<>> =>
           /\ acc'.count = 0 /\ acc'.accTemp = 0 /\ acc'.accDawn = 0
           /\ acc'.accSunS = 0 /\ acc'.accSunW = 0 /\ acc'.accSunE = 0
           /\ acc'.maxWind = 0 /\ acc'.maxRain = 0 /\ acc'.maxObsc = 0
      /\ AcceptStep /\ logged' = <<>> =>
           /\ acc'.count = acc.count + 1
           /\ acc'.accTemp = acc.accTemp + latest'[1].temp
           /\ acc'.accDawn = acc.accDawn + latest'[1].dawn
           /\ acc'.accSunS = acc.accSunS + latest'[1].sunS
           /\ acc'.accSunW = acc.accSunW + latest'[1].sunW
           /\ acc'.accSunE = acc.accSunE + latest'[1].sunE
           /\ acc'.maxWind >= acc.maxWind /\ acc'.maxWind >= latest'[1].wind
           /\ acc'.maxRain >= acc.maxRain /\ acc'.maxObsc >= acc.maxObsc
           /\ acc'.maxRain > 0 /\ acc'.maxObsc > 0
      /\ RejectStep => acc' = acc ]_vars

(* a close of a window of several samples has just zeroed the accumulator *)
C13_Witness ==
  /\ logged # <<>> /\ Len(closed) >= 2
  /\ acc.count = 0 /\ acc.accTemp = 0 /\ acc.maxWind = 0 /\ acc.maxRain = 0

(* the largest wind speed, in tenths of m/s, among the readings of w *)
MaxWindOf(w) ==
  CHOOSE x \in {w[i].wind : i \in 1..Len(w)} : \A i \in 1..Len(w) : w[i].wind <= x

(* C14: in every emitted record the wind value is the maximum, over the     *)
(* samples accumulated in that window, of the decoded wind speed in tenths  *)
(* of m/s, not their mean.                                                  *)
C14_WindIsMaximum ==
  logged # <<>> => closed # <<>> /\ logged[1].wind = MaxWindOf(closed)

(* the strongest wind came first and the closing sample is calmer: the      *)
(* record carries the first, neither the last nor the mean                  *)
C14_Witness ==
  /\ logged # <<>> /\ Len(closed) = 2
  /\ closed[1].wind > closed[2].wind
  /\ logged[1].wind = closed[1].wind
  /\ 2 * logged[1].wind # closed[1].wind + closed[2].wind

(* ------------------------------------------------------------------------ *)
(* Properties of the decoder                                                 *)
(* ------------------------------------------------------------------------ *)
(* t+07.6s01w63e00od999v01.2r *)
ExampleLine ==
  << 116, 43, 48, 55, 46, 54, 115, 48, 49, 119, 54, 51, 101, 48, 48, 111,
     100, 57, 57, 57, 118, 48, 49, 46, 50, 114 >>

(* the values a compact line t[+-]DD.DsDDwDDeDD[oO]dDDDvDD.D[rR] carries *)
ParseCompact(l) ==
  [ temp |-> (IF l[2] = ch.minus THEN -1 ELSE 1)
               * (100 * (l[3] - 48) + 10 * (l[4] - 48) + (l[6] - 48)),
    sunS |-> 10 * (l[8] - 48) + (l[9] - 48),
    sunW |-> 10 * (l[11] - 48) + (l[12] - 48),
    sunE |-> 10 * (l[14] - 48) + (l[15] - 48),
    obsc |-> l[16] = 79,
    dawn |-> 100 * (l[18] - 48) + 10 * (l[19] - 48) + (l[20] - 48),
    wind |-> 100 * (l[22] - 48) + 10 * (l[23] - 48) + (l[25] - 48),
    rain |-> l[26] = 82 ]

(* the shape t[+-]DD.DsDDwDDeDD[oO]dDDDvDD.D[rR] *)
IsCompact(l) ==
  /\ Len(l) = 26
  /\ l[1] = 116 /\ l[2] \in {43, 45} /\ l[5] = 46 /\ l[7] = 115 /\ l[10] = 119
  /\ l[13] = 101 /\ l[16] \in {111, 79} /\ l[17] = 100 /\ l[21] = 118 /\ l[24] = 46
  /\ l[26] \in {114, 82}
  /\ \A k \in {3, 4, 6, 8, 9, 11, 12, 14, 15, 18, 19, 20, 22, 23, 25} :
        l[k] >= 48 /\ l[k] <= 57

(* C15: for every Valid frame decoding yields temperature tenths = sign(byte *)
(* 1) * (100*d2 + 10*d3 + d5), sunS/sunW/sunE the two-digit values at 6-7,   *)
(* 8-9, 10-11, dawn the three-digit value at 13-15, wind tenths 100*d16 +    *)
(* 10*d17 + d19, obscurity active iff byte 12 = J, rain active iff byte 20 = *)
(* J; re-encoding them into the compact grammar reproduces the same values,  *)
(* and the example datagram gives t+07.6s01w63e00od999v01.2r.                *)
C15_DecodeAndReencode ==
  err = 0 /\ raw # <<>> =>
    /\ shm # <<>>
    /\ shm[1].temp = Reading(raw).temp /\ shm[1].wind = Reading(raw).wind
    /\ shm[1].sunS = Reading(raw).sunS /\ shm[1].sunW = Reading(raw).sunW
    /\ shm[1].sunE = Reading(raw).sunE /\ shm[1].dawn = Reading(raw).dawn
    /\ (shm[1].obsc = ch.O) <=> (raw[13] = ch.J)
    /\ (shm[1].rain = ch.R) <=> (raw[21] = ch.J)
    /\ IsCompact(CompactLine(shm[1]))
    /\ ParseCompact(CompactLine(shm[1])) = Reading(raw)
    /\ raw = Datagram(Mild) => CompactLine(shm[1]) = ExampleLine

(* the example datagram has been decoded and gives the example line *)
C15_Witness ==
  /\ err = 0 /\ raw = Datagram(Mild) /\ shm # <<>>
  /\ CompactLine(shm[1]) = ExampleLine
  /\ ParseCompact(ExampleLine).temp = 76 /\ ParseCompact(ExampleLine).sunW = 63

(* ------------------------------------------------------------------------ *)
(* Properties of the read loop                                               *)
(* ------------------------------------------------------------------------ *)
(* the indices, from buf, of the stores of one pass of the read loop: one   *)
(* per byte received and the one of the NUL at s                            *)
StoreIndices == IF raw = <<>> THEN {} ELSE 0..slen

(* C18: for every input byte stream, also one that delivers 150 bytes with  *)
(* no terminator among them or with the terminator as the 150th byte, every *)
(* store of the read loop into the 150-byte buffer, the NUL after the last  *)
(* received byte included, is at an index in 0..149.                        *)
C18_StoresInsideBuffer == StoreIndices \subseteq 0..(LINELEN - 1)

(* ------------------------------------------------------------------------ *)
(* Properties of the shutdown                                                *)
(* ------------------------------------------------------------------------ *)
(* C16: a termination signal delivered at any point of an iteration leads   *)
(* to an orderly shutdown: the output resource is closed, the lock file is  *)
(* removed and the process exits with status 0; no frame is processed after *)
(* the signal, and a second signal arriving during the shutdown does not    *)
(* enter closefiles again.                                                  *)
C16_OrderlyShutdown ==
  /\ [](sig.entries <= 1)
  /\ [](sig.pc = "exited" => sig.status = 0 /\ ~sig.lock /\ ~sig.fd /\ ~sig.log)
  /\ [][sig.entries >= 1 => UNCHANGED << buf, acc, shm, logged, diag, raw >>]_vars
  /\ (sig.entries >= 1) ~> (sig.pc = "exited")

(* ------------------------------------------------------------------------ *)
(* Properties of the lock file                                               *)
(* ------------------------------------------------------------------------ *)
InLoop == {p \in Procs : lk.pc[p] = "loop"}

(* C17: under every interleaving of the start-up steps of two or more       *)
(* processes on one device at most one process at a time is past the lock   *)
(* check, in the read loop; a start-up that finds a lock whose recorded pid *)
(* is a live process exits with status 2 and leaves the lock as it is; a    *)
(* start-up that finds a stale lock removes it and proceeds.                *)
C17_SingleInstance ==
  /\ [](Cardinality(InLoop) <= 1)
  /\ [][\A p \in Procs :
          /\ lk.pc[p] = "L210" /\ lk'.pc[p] # "L210" /\ Live(lk.pid[p])
               => lk'.pc[p] = "exit2" /\ lk'.path = lk.path /\ lk'.data = lk.data
          /\ lk.pc[p] = "L210" /\ lk'.pc[p] # "L210" /\ ~Live(lk.pid[p])
               => lk'.pc[p] = "L216"
          /\ lk.pc[p] = "L216" /\ lk'.pc[p] # "L216"
               => lk'.pc[p] = "L228" /\ lk'.path = NoFile]_vars

(* ------------------------------------------------------------------------ *)
(* Properties of the averages and of the windows                             *)
(* ------------------------------------------------------------------------ *)
Averaged == {"temp", "dawn", "sunS", "sunW", "sunE"}

Field(r, name) ==
  CASE name = "temp" -> r.temp
    [] name = "dawn" -> r.dawn
    [] name = "sunS" -> r.sunS
    [] name = "sunW" -> r.sunW
    [] OTHER -> r.sunE

(* C19: in every emitted record each averaged field lies between the        *)
(* minimum and the maximum of that field over the samples of the window,    *)
(* for positive and negative temperatures alike; a window of exactly one    *)
(* sample emits that sample's own temperature, dawn and sun values.         *)
C19_AverageWithinRange ==
  logged # <<>> =>
    \A name \in Averaged :
      /\ \E k \in 1..Len(closed) : Field(closed[k], name) <= Field(logged[1], name)
      /\ \E k \in 1..Len(closed) : Field(logged[1], name) <= Field(closed[k], name)
      /\ Len(closed) = 1 => Field(logged[1], name) = Field(closed[1], name)

(* the running sum the accumulator keeps for an averaged field *)
SumOf(a, name) ==
  CASE name = "temp" -> a.accTemp
    [] name = "dawn" -> a.accDawn
    [] name = "sunS" -> a.accSunS
    [] name = "sunW" -> a.accSunW
    [] OTHER -> a.accSunE

(* C20: every accepted sample is accumulated into exactly one window: the   *)
(* count and the sums are those of exactly the samples accepted since the   *)
(* last close (or since start); the record emitted at a close is computed   *)
(* from exactly these samples up to and including the sample whose arrival  *)
(* triggered the close, and that sample contributes nothing to the window   *)
(* that follows, which starts with count 0.                                 *)
C20_SamplesInExactlyOneWindow ==
  /\ acc.count = Len(window)
  /\ \A name \in Averaged : SumOf(acc, name) = Total(window, name)
  /\ logged # <<>> =>
       /\ closed # <<>> /\ closed[Len(closed)] = latest[1]
       /\ divisor = Len(closed)
       /\ \A name \in Averaged :
            Field(logged[1], name) = Average(Total(closed, name), Len(closed))
       /\ logged[1].wind = MaxWindOf(closed)
       /\ (logged[1].rain = ch.R) <=> (\A k \in 1..Len(closed) : closed[k].rain)
       /\ (logged[1].obsc = ch.O) <=> (\A k \in 1..Len(closed) : closed[k].obsc)
       /\ window = <<>> /\ acc.count = 0
       /\ \A name \in Averaged : SumOf(acc, name) = 0

(* a close on the second of two different samples, both in the record, none *)
(* left for the next window                                                 *)
C20_Witness ==
  /\ logged # <<>> /\ divisor = 2 /\ closed[1] # closed[2] /\ closed[2] = latest[1]
  /\ 2 * logged[1].sunW <= closed[1].sunW + closed[2].sunW
  /\ closed[1].sunW + closed[2].sunW < 2 * logged[1].sunW + 2
  /\ window = <<>> /\ acc.count = 0

=============================================================================
